---- MODULE Spec2Model ----
(***************************************************************************)
(* Model of ChangeStreamManager (src/src/ChangeStreamManager.ts): the      *)
(* change-capture audit pipeline.  The specifications share the            *)
(* definitions below:                                                      *)
(*   SpecPure  applies the pure transformations (shouldTrack,              *)
(*             filterTrackedFields, sanitizeAndHashSensitiveData and the   *)
(*             record construction of processChange) to bounded inputs;    *)
(*   Spec      is the subscription supervisor: initialize/connectDB,       *)
(*             startChangeStream and its suspension points, the retry      *)
(*             timers, the health-check intervals, the feed callbacks and  *)
(*             gracefulShutdown;                                           *)
(*   SpecAttempt  is the subscription attempts alone, in front of every    *)
(*             store of the model (topology and collections);              *)
(*   FairSpec  is Spec under the fair scheduling of the event loop.        *)
(***************************************************************************)
EXTENDS Bags, FiniteSets, Integers, Sequences, TLC

VARIABLES
  trackingConfig,     \* this.trackingConfig: collection name -> set of field names
  sensitiveFields,    \* this.sensitiveFields
  maxReconnectAttempts, \* this.options.maxReconnectAttempts
  storeCollections,   \* the store: the collections listCollections().toArray() returns
  topology,           \* the store: "standalone", "repl" (serverStatus has a repl section), or
                      \* "unreported" (initiated already, yet serverStatus has no repl section)
  pureOp,             \* SpecPure: which transformation was applied last
  pureIn,             \* SpecPure: the value it was applied to
  pureColl,           \* SpecPure: the collection name argument
  pureOut,            \* SpecPure: the value it returned
  pureChange,         \* SpecPure: the change event given to processChange
  pureResult,         \* SpecPure: what processChange did with it
  initPc,             \* where main's call of initialize() stands
  reconnectAttempts,  \* this.reconnectAttempts
  connectDepth,       \* connectDB invocations on the call chain of initialize(): one per mongoose.connect made
  readyState,         \* mongoose.connection.readyState (0 disconnected, 1 connected, 3 disconnecting)
  auditLogModel,      \* this.auditLogModel is set
  changeStream,       \* this.changeStream: "null", or the state of the handle it refers to
  orphanStreams,      \* handles this.changeStream no longer refers to that are still open, callbacks registered
  calls,              \* bag of startChangeStream invocations suspended at an await
  reconnectTimers,    \* pending setTimeout(() => this.startChangeStream(), reconnectDelay)
  healthIntervals,    \* active setInterval timers of startHealthCheck
  listeners,          \* setupEventListeners has registered the process handlers
  shutdowns,          \* bag of gracefulShutdown invocations suspended at an await
  exitCode,           \* -1 while the process runs, else the status given to process.exit
  pending,            \* per emitted event: auditLogModel.create calls not yet settled
  sink,               \* event ids of the audit records persisted, in completion order
  attemptFailures,    \* history: subscription attempts that ended in the catch block
  feedErrors,         \* history: 'error' events emitted by feed handles
  healthRecoveries,   \* history: health-check ticks that called startChangeStream
  healthPasses,       \* history: health-check ticks that found the connection ready
  signals,            \* history: termination signals received
  events,             \* history: change events emitted by the feed
  sinkFailures,       \* history: auditLogModel.create calls that failed
  stable              \* the collaborators no longer fail

pureVars == <<pureOp, pureIn, pureColl, pureOut, pureChange, pureResult>>
\* what is fixed while the manager runs: its configuration and the store's collections
confVars == <<trackingConfig, sensitiveFields, maxReconnectAttempts, storeCollections>>
\* what a step of startChangeStream can write
stepVars == <<changeStream, orphanStreams, healthIntervals, reconnectTimers, attemptFailures,
              calls, listeners, initPc>>
\* what no step of startChangeStream writes
restVars == <<reconnectAttempts, connectDepth, readyState, auditLogModel, shutdowns, exitCode,
              pending, sink, feedErrors, healthRecoveries, healthPasses, signals, events, sinkFailures, stable>>
supVars == <<stepVars, restVars>>
vars == <<confVars, pureVars, topology, supVars>>

\* bounds of the model
MaxAttemptsBound == 2      \* maxReconnectAttempts ranges over 1..MaxAttemptsBound
MaxIncidents == 3          \* what the environment does to a run, taken together: failed
                           \* subscription attempts, feed errors, failed sink writes,
                           \* health-check ticks (whatever they find), change events
                           \* and termination signals

-----------------------------------------------------------------------------
(* JavaScript values.  Every value is a record of the same shape so that    *)
(* values of different kinds can be compared.                              *)

NoFields == [k \in {} |-> 0]

Undefined == [kind |-> "undefined", s |-> "", fields |-> NoFields]
Null == [kind |-> "null", s |-> "", fields |-> NoFields]
Str(s) == [kind |-> "string", s |-> s, fields |-> NoFields]
DateValue(s) == [kind |-> "date", s |-> s, fields |-> NoFields]
ObjectIdValue(s) == [kind |-> "objectid", s |-> s, fields |-> NoFields]
Obj(f) == [kind |-> "object", s |-> "", fields |-> f]
Arr(f) == [kind |-> "array", s |-> "", fields |-> f]

\* !obj  (the model has no empty strings or numbers 0, so only null/undefined are falsy)
Falsy(v) == v.kind \in {"undefined", "null"}

\* typeof v === 'object'
TypeofObject(v) == v.kind \in {"null", "date", "objectid", "array", "object"}

\* ObjectId.isValid(v) for a v with typeof v === 'object'
ObjectIdIsValid(v) == v.kind = "objectid"

\* the own enumerable properties that { ...v } copies: the entries of a plain
\* object, the index keys of an array, none for a Date
OwnEnumerable(v) == IF v.kind \in {"object", "array"} THEN v.fields ELSE NoFields

\* String(v)
StringOf(v) ==
  CASE v.kind = "string" -> v.s
    [] v.kind = "undefined" -> "undefined"
    [] v.kind = "null" -> "null"
    [] v.kind = "date" -> v.s
    [] v.kind = "objectid" -> v.s
    [] v.kind = "array" -> "<array>"
    [] v.kind = "object" -> "[object Object]"

\* createHash('sha256').update(s).digest('hex'): a string determined by s
Sha256Hex(s) == Str("sha256:" \o s)

\* key.toLowerCase() on the field names of the model
ToLowerCase(k) ==
  CASE k = "userPassword" -> "userpassword"
    [] k = "Token" -> "token"
    [] OTHER -> k

\* hay.includes(needle) on the lowercased field names and matchers of the model
Includes(hay, needle) ==
  \/ hay = needle
  \/ <<hay, needle>> \in {<<"userpassword", "password">>, <<"userpassword", "word">>,
                           <<"password", "word">>}

-----------------------------------------------------------------------------
(* Redaction engine                                                        *)

\* shouldTrack(collectionName, fieldName)
shouldTrackNoCollectionCheck(collectionName, fieldName) ==
  IF DOMAIN trackingConfig = {} THEN TRUE
  ELSE IF collectionName \notin DOMAIN trackingConfig THEN TRUE
  ELSE trackingConfig[collectionName] = {} \/ fieldName \in trackingConfig[collectionName]

shouldTrack(collectionName, fieldName) ==
  IF DOMAIN trackingConfig = {} THEN TRUE
  ELSE IF collectionName \notin DOMAIN trackingConfig THEN FALSE
  ELSE trackingConfig[collectionName] = {} \/ fieldName \in trackingConfig[collectionName]

\* filterTrackedFields(obj, collectionName)
filterTrackedFields(obj, collectionName) ==
  IF Falsy(obj) THEN Obj(NoFields)
  ELSE Obj([k \in {f \in DOMAIN obj.fields : shouldTrack(collectionName, f)} |-> obj.fields[k]])

\* the test of line 150: some configured matcher is contained in the lowercased key
IsSensitiveKey(key) == \E field \in sensitiveFields : Includes(ToLowerCase(key), field)

\* sanitizeAndHashSensitiveData(obj)
RECURSIVE sanitizeAndHashSensitiveData(_)
sanitizeAndHashSensitiveData(obj) ==
  IF Falsy(obj) \/ ~TypeofObject(obj) \/ ObjectIdIsValid(obj) THEN obj
  ELSE LET sanitized == OwnEnumerable(obj)
       IN  Obj([key \in DOMAIN sanitized |->
                 IF IsSensitiveKey(key) THEN Sha256Hex(StringOf(sanitized[key]))
                 ELSE IF TypeofObject(sanitized[key])
                      THEN sanitizeAndHashSensitiveData(sanitized[key])
                      ELSE sanitized[key]])

-----------------------------------------------------------------------------
(* Checksum builder                                                        *)

\* maxObjectDepth of DEFAULT_OPTIONS
DefaultMaxObjectDepth == 10

\* limitObjectDepth(obj, currentDepth): Object.keys of a Date or an ObjectId
\* is empty, so below the bound either becomes {}
RECURSIVE limitObjectDepth(_, _)
limitObjectDepth(obj, currentDepth) ==
  IF Falsy(obj) \/ ~TypeofObject(obj) \/ currentDepth >= DefaultMaxObjectDepth THEN obj
  ELSE IF obj.kind = "array"
    THEN Arr([i \in DOMAIN obj.fields |-> limitObjectDepth(obj.fields[i], currentDepth + 1)])
    ELSE LET own == OwnEnumerable(obj)
         IN  Obj([key \in DOMAIN own |-> limitObjectDepth(own[key], currentDepth + 1)])

\* the property names of the model, in the order JSON.stringify writes them
\* (values here are unordered maps; the serialisation is of their content)
KeyOrder ==
  <<"timestamp", "operationType", "collectionName", "documentKey", "updateDescription",
    "oldValue", "newValue", "_id", "updatedFields", "name", "email", "password", "age",
    "userPassword", "Token", "profile", "createdAt", "owner", "tags", "0", "1">>

\* JSON.stringify(v): strings quoted, null as null, a Date or ObjectId by its
\* toJSON string, a property whose value is undefined left out, an undefined
\* array element as null; every member is followed by a comma
RECURSIVE JsonStringify(_), JsonMembers(_, _)
JsonStringify(v) ==
  CASE v.kind = "string" -> "'" \o v.s \o "'"
    [] v.kind \in {"null", "undefined"} -> "null"
    [] v.kind \in {"date", "objectid"} -> "'" \o v.s \o "'"
    [] v.kind = "array" -> "[" \o JsonMembers(v, KeyOrder) \o "]"
    [] v.kind = "object" -> "{" \o JsonMembers(v, KeyOrder) \o "}"

JsonMembers(v, keys) ==
  IF keys = <<>> THEN ""
  ELSE LET key == Head(keys)
           member ==
             IF key \notin DOMAIN v.fields THEN ""
             ELSE IF v.kind = "array" THEN JsonStringify(v.fields[key]) \o ","
             ELSE IF v.fields[key].kind = "undefined" THEN ""
             ELSE "'" \o key \o "':" \o JsonStringify(v.fields[key]) \o ","
       IN  member \o JsonMembers(v, Tail(keys))

\* createChecksum(data)
createChecksum(data) == Sha256Hex(JsonStringify(limitObjectDepth(data, 0)))

-----------------------------------------------------------------------------
(* Event processor                                                         *)

\* a raw change event as the feed hands it to the 'change' callback
ChangeEvent(ns, operationType, fullDocument, fullDocumentBeforeChange, documentKey, updateDescription) ==
  [ns |-> ns, operationType |-> operationType, fullDocument |-> fullDocument,
   fullDocumentBeforeChange |-> fullDocumentBeforeChange, documentKey |-> documentKey,
   updateDescription |-> updateDescription]

Namespace(coll) == Obj([k \in {"coll"} |-> Str(coll)])

\* updateDescription || null
OrNull(v) == IF Falsy(v) THEN Null ELSE v

AuditLogSwapped(change, collectionName) ==
  LET base == [operationType |-> change.operationType,
               collectionName |-> collectionName,
               documentKey |-> change.documentKey,
               updateDescription |-> OrNull(change.updateDescription),
               oldValue |-> Undefined,
               newValue |-> Undefined]
  IN  CASE change.operationType = "insert" ->
             [base EXCEPT !.newValue = filterTrackedFields(change.fullDocument, collectionName)]
        [] change.operationType = "update" ->
             [base EXCEPT !.oldValue = filterTrackedFields(change.fullDocumentBeforeChange, collectionName),
                          !.newValue = filterTrackedFields(change.fullDocument, collectionName)]
        [] change.operationType = "delete" ->
             [base EXCEPT !.newValue = filterTrackedFields(change.fullDocumentBeforeChange, collectionName)]
        [] OTHER -> base

\* the auditLog object of processChange: lines 170-176, then the switch of
\* lines 178-191 (a key that is never assigned stays Undefined)
AuditLogFor(change, collectionName) ==
  LET base == [operationType |-> change.operationType,
               collectionName |-> collectionName,
               documentKey |-> change.documentKey,
               updateDescription |-> OrNull(change.updateDescription),
               oldValue |-> Undefined,
               newValue |-> Undefined]
  IN  CASE change.operationType = "insert" ->
             [base EXCEPT !.newValue = filterTrackedFields(change.fullDocument, collectionName)]
        [] change.operationType = "update" ->
             [base EXCEPT !.oldValue = filterTrackedFields(change.fullDocumentBeforeChange, collectionName),
                          !.newValue = filterTrackedFields(change.fullDocument, collectionName)]
        [] change.operationType = "delete" ->
             [base EXCEPT !.oldValue = filterTrackedFields(change.fullDocumentBeforeChange, collectionName)]
        [] OTHER -> base

\* the auditLog as the JavaScript object handed to createChecksum and to
\* create: the keys of lines 170-176 and 178-188 (an unassigned key reads as
\* undefined)
AuditLogObject(log) ==
  Obj([key \in {"timestamp", "operationType", "collectionName", "documentKey",
                "updateDescription", "oldValue", "newValue"} |->
         CASE key = "operationType" -> Str(log.operationType)
           [] key = "collectionName" -> Str(log.collectionName)
           [] OTHER -> log[key]])

\* line 171 and line 193: the timestamp, and the checksum of the auditLog
\* as it stands before the checksum is assigned
WithChecksum(log) ==
  LET stamped == log @@ [timestamp |-> DateValue("now")]
  IN  stamped @@ [checksum |-> createChecksum(AuditLogObject(stamped))]

\* what auditLogModel.create stores: the schema's setters of oldValue and
\* newValue run on the values given (lines 101-108)
StoredRecord(log) ==
  [log EXCEPT !.oldValue = sanitizeAndHashSensitiveData(@),
              !.newValue = sanitizeAndHashSensitiveData(@)]

IsAuditedKindAny(operationType) == TRUE

\* the operation kinds for which the switch does not take the default branch
IsAuditedKind(operationType) == operationType \in {"insert", "update", "delete"}

\* the synchronous part of processChange(change), up to the call of
\* auditLogModel.create: whether it throws (ns.coll on an absent ns) and the
\* audit logs it hands to create; the collectionName of a namespace without
\* coll is undefined, written "undefined"
processChange(change) ==
  IF change.ns.kind # "object" THEN [throws |-> TRUE, creates |-> <<>>]
  ELSE LET collectionName == IF "coll" \in DOMAIN change.ns.fields
                                THEN change.ns.fields["coll"].s
                                ELSE "undefined"
       IN  IF collectionName = "audit_logs" THEN [throws |-> FALSE, creates |-> <<>>]
           ELSE IF ~IsAuditedKind(change.operationType) THEN [throws |-> FALSE, creates |-> <<>>]
           ELSE [throws |-> FALSE, creates |-> <<WithChecksum(AuditLogFor(change, collectionName))>>]

-----------------------------------------------------------------------------
(* Bounded inputs of the pure transformations                              *)

EmptyConfig == [c \in {} |-> {}]

\* the tracking configurations tried: empty, the test's and the README's
TrackingConfigs ==
  { EmptyConfig,
    [c \in {"users"} |-> {"name", "email"}],
    [c \in {"users"} |-> {}],
    [c \in {"orders"} |-> {}],
    [c \in {"users", "orders"} |-> IF c = "users" THEN {"name", "email"} ELSE {}] }

SensitiveFieldSets == { {}, {"password"}, {"password", "token"} }

Collections == {"users", "orders", "audit_logs"}

TopLevelFields == {"name", "email", "password", "age"}

\* every document over a subset of TopLevelFields, each field holding a string
FlatDocs == { Obj([k \in ks |-> Str("v_" \o k)]) : ks \in SUBSET TopLevelFields }

AnnDoc == Obj([k \in TopLevelFields |-> Str("v_" \o k)])

\* documents with mixed-case keys, nested objects, dates, identifiers and arrays
NestedDocs ==
  { Obj([k \in {"userPassword", "Token"} |-> Str("v_" \o k)]),
    Obj([k \in {"profile"} |-> Obj([j \in {"password", "name"} |-> Str("v_" \o j)])]),
    Obj([k \in {"name", "createdAt"} |-> IF k = "name" THEN Str("Ann") ELSE DateValue("2024-01-01")]),
    Obj([k \in {"owner"} |-> ObjectIdValue("65a1")]),
    Obj([k \in {"tags"} |-> Arr([i \in {"0", "1"} |-> Str("t" \o i)])]),
    Obj([k \in {"password"} |-> Obj([j \in {"name"} |-> Str("x")])]),
    Obj([k \in {"age"} |-> Null]) }

SanitizeInputs == FlatDocs \cup NestedDocs \cup {Null, Undefined, Str("plain"), ObjectIdValue("65a1")}

DocKey == Obj([k \in {"_id"} |-> ObjectIdValue("65a1")])

UpdateDesc == Obj([k \in {"updatedFields"} |-> Obj([j \in {"name"} |-> Str("Bob")])])

EventDocs == {AnnDoc, Obj([k \in {"name", "password"} |-> Str("v_" \o k)])}

\* the namespace of an event about a database: no coll
DatabaseNamespace == Obj([k \in {"db"} |-> Str("test_db")])

\* the raw events the feed delivers: writes with their images (the pre-image
\* only when available, the post-image of an update null when the document
\* is gone), a replace, a dropDatabase whose namespace has no collection, and
\* an invalidate notification that has no namespace
ChangeEvents ==
  { ChangeEvent(Namespace(c), "insert", d, Undefined, DocKey, Undefined) :
      c \in Collections, d \in EventDocs }
  \cup
  { ChangeEvent(Namespace(x[1]), "update", x[2], x[3], DocKey, UpdateDesc) :
      x \in Collections \X (EventDocs \cup {Null}) \X (EventDocs \cup {Undefined}) }
  \cup
  { ChangeEvent(Namespace(c), "delete", Undefined, d, DocKey, Undefined) :
      c \in Collections, d \in EventDocs \cup {Undefined} }
  \cup
  { ChangeEvent(Namespace(c), "replace", d, Undefined, DocKey, Undefined) :
      c \in Collections, d \in EventDocs }
  \cup
  { ChangeEvent(DatabaseNamespace, "dropDatabase", Undefined, Undefined, Undefined, Undefined),
    ChangeEvent(Undefined, "invalidate", Undefined, Undefined, Undefined, Undefined) }

-----------------------------------------------------------------------------
(* SpecPure: the transformations applied to the bounded inputs             *)

NoChange == ChangeEvent(Undefined, "none", Undefined, Undefined, Undefined, Undefined)
NoResult == [throws |-> FALSE, creates |-> <<>>]

\* maxReconnectAttempts of DEFAULT_OPTIONS
DefaultMaxReconnectAttempts == 5

\* applied once, to the manager as configured
ApplyFilter ==
  /\ pureOp = "none"
  /\ \E obj \in FlatDocs \cup NestedDocs \cup {Null, Undefined}, c \in Collections :
       /\ pureOp' = "filterTrackedFields"
       /\ pureIn' = obj
       /\ pureColl' = c
       /\ pureOut' = filterTrackedFields(obj, c)
       /\ UNCHANGED <<pureChange, pureResult>>

\* applied once, to the manager as configured
ApplySanitize ==
  /\ pureOp = "none"
  /\ \E obj \in SanitizeInputs :
       /\ pureOp' = "sanitizeAndHashSensitiveData"
       /\ pureIn' = obj
       /\ pureOut' = sanitizeAndHashSensitiveData(obj)
       /\ UNCHANGED <<pureColl, pureChange, pureResult>>

\* applied once, to the manager as configured
ApplyProcessChange ==
  /\ pureOp = "none"
  /\ \E change \in ChangeEvents :
       /\ pureOp' = "processChange"
       /\ pureChange' = change
       /\ pureResult' = processChange(change)
       /\ UNCHANGED <<pureIn, pureColl, pureOut>>

-----------------------------------------------------------------------------
(* Subscription supervisor                                                 *)

Running == exitCode = -1

\* a collaborator operation may still fail
MayFail == ~stable

\* what the environment has done so far
Incidents ==
  attemptFailures + feedErrors + sinkFailures + healthRecoveries + healthPasses + events + signals

\* a subscription attempt may still be made to fail
AttemptMayFail == MayFail /\ Incidents < MaxIncidents

\* a startChangeStream invocation suspended at the await pc; issued are the
\* collections a collMod command was issued for (enablePromises) and skipped
\* those whose command failed
Call(pc, owner) == [pc |-> pc, owner |-> owner, issued |-> {}, skipped |-> {}]

Copies(x, n) == IF n = 0 THEN EmptyBag ELSE [y \in {x} |-> n]

\* main() calls manager.initialize(), which calls connectDB(): mongoose.connect is awaited
Initialize ==
  /\ Running
  /\ initPc = "constructed"
  /\ initPc' = "connecting"
  /\ connectDepth' = connectDepth + 1
  /\ UNCHANGED <<confVars, pureVars, topology, changeStream, orphanStreams, healthIntervals, reconnectTimers,
                 attemptFailures, calls, listeners, reconnectAttempts, readyState, auditLogModel,
                 shutdowns, exitCode, pending, sink, feedErrors, healthRecoveries, healthPasses, signals, events,
                 sinkFailures, stable>>

\* mongoose.connect resolves: connectDB resets the counter and every connectDB
\* invocation on the chain returns,
\* initialize() sets the audit model and calls startChangeStream(), which runs
\* to its first await (adminDb.serverStatus())
ConnectSucceeds ==
  /\ Running
  /\ initPc = "connecting"
  /\ reconnectAttempts' = 0
  /\ readyState' = 1
  /\ auditLogModel' = TRUE
  /\ calls' = calls (+) SetToBag({Call("serverStatus", "initialize")})
  /\ initPc' = "subscribing"
  /\ connectDepth' = 0
  /\ UNCHANGED <<confVars, pureVars, topology, changeStream, orphanStreams, healthIntervals, reconnectTimers,
                 attemptFailures, listeners, shutdowns, exitCode, pending, sink,
                 feedErrors, healthRecoveries, healthPasses, signals, events, sinkFailures, stable>>

ReachedMaxOffByOne(n) == n > maxReconnectAttempts

\* ++this.reconnectAttempts >= this.options.maxReconnectAttempts, on the incremented value n
ReachedMax(n) == n >= maxReconnectAttempts

\* mongoose.connect rejects: the catch block of connectDB; when it throws,
\* initialize() rejects and main's catch calls process.exit(1)
ConnectFails ==
  /\ Running
  /\ MayFail
  /\ initPc = "connecting"
  /\ reconnectAttempts' = reconnectAttempts + 1
  /\ IF ReachedMax(reconnectAttempts + 1)
       THEN initPc' = "failed" /\ exitCode' = 1
       ELSE initPc' = "retryDelay" /\ UNCHANGED exitCode
  /\ UNCHANGED <<confVars, pureVars, topology, changeStream, orphanStreams, healthIntervals, reconnectTimers,
                 attemptFailures, calls, listeners, connectDepth, readyState, auditLogModel,
                 shutdowns, pending, sink, feedErrors, healthRecoveries, healthPasses, signals, events,
                 sinkFailures, stable>>

\* the reconnectDelay of connectDB elapses: return this.connectDB()
ConnectRetry ==
  /\ Running
  /\ initPc = "retryDelay"
  /\ initPc' = "connecting"
  /\ connectDepth' = connectDepth + 1
  /\ UNCHANGED <<confVars, pureVars, topology, changeStream, orphanStreams, healthIntervals, reconnectTimers,
                 attemptFailures, calls, listeners, reconnectAttempts, readyState, auditLogModel,
                 shutdowns, exitCode, pending, sink, feedErrors, healthRecoveries, healthPasses, signals, events,
                 sinkFailures, stable>>

\* the invocation c moves on to its next await
MoveTo(c, pc) ==
  /\ calls' = (calls (-) SetToBag({c})) (+) SetToBag({Call(pc, c.owner)})
  /\ UNCHANGED <<changeStream, orphanStreams, healthIntervals, reconnectTimers, attemptFailures,
                 listeners, initPc>>

\* the invocation c moves on to its next await as the record next
MoveWith(c, next) ==
  /\ calls' = (calls (-) SetToBag({c})) (+) SetToBag({next})
  /\ UNCHANGED <<changeStream, orphanStreams, healthIntervals, reconnectTimers, attemptFailures,
                 listeners, initPc>>

\* startChangeStream's promise resolves; when initialize() awaited it,
\* initialize() goes on to setupEventListeners() and returns
Returns(c) ==
  /\ calls' = calls (-) SetToBag({c})
  /\ IF c.owner = "initialize"
       THEN listeners' = TRUE /\ initPc' = "done"
       ELSE UNCHANGED <<listeners, initPc>>

CatchAndRetryLimited(c) ==
  /\ reconnectTimers' = IF attemptFailures + 1 >= maxReconnectAttempts
                          THEN reconnectTimers
                          ELSE reconnectTimers + 1
  /\ attemptFailures' = attemptFailures + 1
  /\ Returns(c)
  /\ UNCHANGED <<changeStream, orphanStreams, healthIntervals>>

\* the catch block of startChangeStream
CatchAndRetry(c) ==
  /\ reconnectTimers' = reconnectTimers + 1
  /\ attemptFailures' = attemptFailures + 1
  /\ Returns(c)
  /\ UNCHANGED <<changeStream, orphanStreams, healthIntervals>>

\* lines 280-290: db.watch, the callbacks, startHealthCheck
OpenFeed(c) ==
  /\ changeStream' = "open"
  /\ orphanStreams' = orphanStreams + (IF changeStream = "open" THEN 1 ELSE 0)
  /\ healthIntervals' = healthIntervals + 1
  /\ Returns(c)
  /\ UNCHANGED <<reconnectTimers, attemptFailures>>

\* !serverStatus.repl (line 259), on what serverStatus reported
NeedsInitiate(report) == report # "repl"

\* adminDb.serverStatus() settles: it reports a repl section or none
ServerStatusSettles ==
  \E c \in BagToSet(calls), ok \in BOOLEAN :
    LET report == IF topology = "repl" THEN "repl" ELSE "norepl"
    IN  /\ Running
        /\ c.pc = "serverStatus"
        /\ ~ok => AttemptMayFail
        /\ IF ~ok THEN CatchAndRetry(c)
           ELSE IF NeedsInitiate(report) THEN MoveTo(c, "replSetInitiate")
           ELSE MoveTo(c, "listCollections")
        /\ UNCHANGED <<confVars, pureVars, topology, restVars>>

InitiateBranchNoDelay(outcome) ==
  CASE outcome = "ok" -> "listCollections"
    [] outcome = "AlreadyInitialized" -> "listCollections"
    [] OTHER -> "catch"

\* lines 261-271: where startChangeStream goes on the outcome of replSetInitiate
InitiateBranch(outcome) ==
  CASE outcome = "ok" -> "settleDelay"
    [] outcome = "AlreadyInitialized" -> "listCollections"
    [] OTHER -> "catch"

\* adminDb.command({ replSetInitiate: {} }) settles: a standalone store is
\* initiated, an initiated one answers AlreadyInitialized
ReplSetInitiateSettles ==
  \E c \in BagToSet(calls), ok \in BOOLEAN :
    LET outcome == IF ~ok THEN "fail"
                   ELSE IF topology = "standalone" THEN "ok" ELSE "AlreadyInitialized"
    IN  /\ Running
        /\ c.pc = "replSetInitiate"
        /\ ~ok => AttemptMayFail
        /\ topology' = IF outcome = "ok" THEN "repl" ELSE topology
        /\ IF InitiateBranch(outcome) = "catch" THEN CatchAndRetry(c)
           ELSE MoveTo(c, InitiateBranch(outcome))
        /\ UNCHANGED <<confVars, pureVars, restVars>>

\* the 5000 ms wait after a successful initiation elapses
SettleDelayElapses ==
  \E c \in BagToSet(calls) :
    /\ Running
    /\ c.pc = "settleDelay"
    /\ MoveTo(c, "listCollections")
    /\ UNCHANGED <<confVars, pureVars, topology, restVars>>

Collection(name, type) == [name |-> name, type |-> type]

\* what the store may hold: nothing, one collection, a collection and a view
Listings ==
  { {}, {Collection("users", "collection")},
    {Collection("users", "collection"), Collection("active_users", "view")} }

enablePromisesCollectionsOnly(collections) == {x.name : x \in {y \in collections : y.type = "collection"}}

\* the commands of lines 237-244: one collMod per entry of the listing, all
\* issued before any of them settles
enablePromises(collections) == {x.name : x \in collections}

\* enablePreAndPostImages: listCollections().toArray() settles and the collMod
\* commands are issued
ListCollectionsSettles ==
  \E c \in BagToSet(calls), ok \in BOOLEAN :
    /\ Running
    /\ c.pc = "listCollections"
    /\ ~ok => AttemptMayFail
    /\ IF ok
         THEN MoveWith(c, [Call("collMod", c.owner) EXCEPT !.issued = enablePromises(storeCollections)])
         ELSE CatchAndRetry(c)
    /\ UNCHANGED <<confVars, pureVars, topology, restVars>>

\* the collMod commands settle, those of the collections in failed by
\* rejecting: each .catch logs and fulfils (line 243)
CollModCommandsSettle ==
  \E c \in BagToSet(calls) :
    \E failed \in SUBSET c.issued :
      /\ Running
      /\ c.pc = "collMod"
      /\ MoveWith(c, [c EXCEPT !.pc = "allSettled", !.skipped = failed])
      /\ UNCHANGED <<confVars, pureVars, topology, restVars>>

\* Promise.allSettled over the collMod commands resolves, whichever of them
\* failed; startChangeStream goes on to lines 276-278 and, when there is no
\* handle to close, to lines 280-290
CollModSettles ==
  \E c \in BagToSet(calls), watchOk \in BOOLEAN :
    /\ Running
    /\ c.pc = "allSettled"
    /\ IF changeStream # "null"
         THEN /\ watchOk
              /\ changeStream' = "closed"
              /\ calls' = (calls (-) SetToBag({c})) (+) SetToBag({Call("closeStream", c.owner)})
              /\ UNCHANGED <<orphanStreams, healthIntervals, reconnectTimers, attemptFailures,
                             listeners, initPc>>
         ELSE /\ ~watchOk => AttemptMayFail
              /\ IF watchOk THEN OpenFeed(c) ELSE CatchAndRetry(c)
    /\ UNCHANGED <<confVars, pureVars, topology, restVars>>

\* this.changeStream.close() of line 277 settles; on success lines 280-290 follow
CloseStreamSettles ==
  \E c \in BagToSet(calls), outcome \in {"ok", "closeFails", "watchFails"} :
    /\ Running
    /\ c.pc = "closeStream"
    /\ outcome # "ok" => AttemptMayFail
    /\ IF outcome = "ok" THEN OpenFeed(c) ELSE CatchAndRetry(c)
    /\ UNCHANGED <<confVars, pureVars, topology, restVars>>

\* a retry timer fires: () => this.startChangeStream(), up to its first await
ReconnectTimerFires ==
  /\ Running
  /\ reconnectTimers > 0
  /\ reconnectTimers' = reconnectTimers - 1
  /\ calls' = calls (+) SetToBag({Call("serverStatus", "callback")})
  /\ UNCHANGED <<confVars, pureVars, topology, restVars, changeStream, orphanStreams, healthIntervals,
                 attemptFailures, listeners, initPc>>

\* one of the health-check intervals ticks and finds readyState !== 1
HealthCheckRecovers ==
  /\ Running
  /\ healthIntervals > 0
  /\ readyState # 1
  /\ Incidents < MaxIncidents
  /\ healthRecoveries' = healthRecoveries + 1
  /\ calls' = calls (+) SetToBag({Call("serverStatus", "callback")})
  /\ UNCHANGED <<confVars, pureVars, topology, changeStream, orphanStreams, healthIntervals, reconnectTimers,
                 attemptFailures, listeners, initPc, reconnectAttempts, connectDepth, readyState,
                 auditLogModel, shutdowns, exitCode, pending, sink, feedErrors, healthPasses,
                 signals, events, sinkFailures, stable>>

\* one of the health-check intervals ticks and finds readyState === 1: the
\* callback returns without doing anything
HealthCheckPasses ==
  /\ Running
  /\ healthIntervals > 0
  /\ readyState = 1
  /\ Incidents < MaxIncidents
  /\ healthPasses' = healthPasses + 1
  /\ UNCHANGED <<confVars, pureVars, topology, stepVars, reconnectAttempts, connectDepth, readyState,
                 auditLogModel, shutdowns, exitCode, pending, sink, feedErrors, healthRecoveries,
                 signals, events, sinkFailures, stable>>

handleChangeStreamErrorNoRetry ==
  /\ changeStream' = IF changeStream = "null" THEN "null" ELSE "closed"
  /\ UNCHANGED reconnectTimers

\* handleChangeStreamError(error): closes the handle this.changeStream refers
\* to, whichever handle emitted the error, and sets the retry timer
handleChangeStreamError ==
  /\ changeStream' = IF changeStream = "null" THEN "null" ELSE "closed"
  /\ reconnectTimers' = reconnectTimers + 1

\* the 'error' event of the handle this.changeStream refers to, or of an
\* orphaned handle (which the driver may or may not have closed on its own)
FeedError ==
  \E source \in {"current", "orphan", "orphanClosedByDriver"} :
    /\ Running
    /\ MayFail
    /\ Incidents < MaxIncidents
    /\ IF source = "current" THEN changeStream = "open" ELSE orphanStreams > 0
    /\ feedErrors' = feedErrors + 1
    /\ handleChangeStreamError
    /\ orphanStreams' = IF source = "orphanClosedByDriver" THEN orphanStreams - 1 ELSE orphanStreams
    /\ UNCHANGED <<confVars, pureVars, topology, healthIntervals, attemptFailures, calls, listeners, initPc,
                   reconnectAttempts, connectDepth, readyState, auditLogModel, shutdowns, exitCode,
                   pending, sink, healthRecoveries, healthPasses, signals, events, sinkFailures, stable>>

\* the events the feed emits while the supervisor runs: a tracked write, a
\* write to the audit sink's own collection, a dropDatabase and an invalidate
\* notification
SupervisorEvents ==
  { ChangeEvent(Namespace("users"), "insert", AnnDoc, Undefined, DocKey, Undefined),
    ChangeEvent(Namespace("audit_logs"), "insert", AnnDoc, Undefined, DocKey, Undefined),
    ChangeEvent(DatabaseNamespace, "dropDatabase", Undefined, Undefined, Undefined, Undefined),
    ChangeEvent(Undefined, "invalidate", Undefined, Undefined, Undefined, Undefined) }

\* the handles that are open with processChange registered for 'change'
Handlers == (IF changeStream = "open" THEN 1 ELSE 0) + orphanStreams

FeedDeliversAwaitingHandler == Handlers > 0 /\ pending = EmptyBag

\* line 287: an open handle calls the listener for each event it emits and
\* ignores the promise processChange returns
FeedDelivers == Handlers > 0

Shutdown(pc, hadStream, streamClosed) ==
  [pc |-> pc, hadStream |-> hadStream, streamClosed |-> streamClosed]

StartShutdownBothCloses(n) ==
  /\ shutdowns' = shutdowns (+) Copies(Shutdown("closeConnection", changeStream # "null", FALSE), n)
  /\ changeStream' = IF changeStream = "null" THEN "null" ELSE "closed"
  /\ readyState' = 3

\* n invocations of gracefulShutdown run to their first await: lines 337-340
StartShutdown(n) ==
  IF changeStream # "null"
    THEN /\ shutdowns' = shutdowns (+) Copies(Shutdown("closeStream", TRUE, FALSE), n)
         /\ changeStream' = "closed"
         /\ UNCHANGED readyState
    ELSE /\ shutdowns' = shutdowns (+) Copies(Shutdown("closeConnection", FALSE, FALSE), n)
         /\ readyState' = 3
         /\ UNCHANGED changeStream

\* the feed emits a change event: every open handle calls processChange, which
\* runs to the await of auditLogModel.create (or throws, which rejects the
\* promise nobody holds: 'unhandledRejection')
EmitEvent ==
  \E change \in SupervisorEvents :
    LET result == processChange(change)
        creates == IF auditLogModel THEN Len(result.creates) ELSE 0
    IN  /\ Running
        /\ Incidents < MaxIncidents
        /\ FeedDelivers
        /\ events' = events + 1
        /\ IF result.throws
             THEN /\ IF listeners
                       THEN StartShutdown(Handlers) /\ UNCHANGED exitCode
                       ELSE exitCode' = 1 /\ UNCHANGED <<shutdowns, changeStream, readyState>>
                  /\ UNCHANGED pending
             ELSE /\ pending' = pending (+) Copies(events + 1, Handlers * creates)
                  /\ UNCHANGED <<shutdowns, changeStream, readyState, exitCode>>
        /\ UNCHANGED <<confVars, pureVars, topology, orphanStreams, healthIntervals, reconnectTimers,
                       attemptFailures, calls, listeners, initPc, reconnectAttempts, connectDepth,
                       auditLogModel, sink, feedErrors, healthRecoveries, healthPasses, signals, sinkFailures, stable>>

SinkRejectsAndRetries(e) ==
  /\ sinkFailures' = sinkFailures + 1
  /\ UNCHANGED <<pending, sink>>

\* the catch block of processChange: the error is logged, the record dropped
SinkRejects(e) ==
  /\ pending' = pending (-) SetToBag({e})
  /\ sinkFailures' = sinkFailures + 1
  /\ UNCHANGED sink

\* auditLogModel.create settles for one in-flight processChange: the record
\* is persisted, or the catch block runs
CreateSettles ==
  \E e \in BagToSet(pending), ok \in BOOLEAN :
    /\ Running
    /\ IF ok
         THEN /\ pending' = pending (-) SetToBag({e})
              /\ sink' = Append(sink, e)
              /\ UNCHANGED sinkFailures
         ELSE /\ MayFail
              /\ Incidents < MaxIncidents
              /\ SinkRejects(e)
    /\ UNCHANGED <<confVars, pureVars, topology, stepVars, reconnectAttempts, connectDepth, readyState,
                   auditLogModel, shutdowns, exitCode, feedErrors, healthRecoveries, healthPasses, signals,
                   events, stable>>

\* SIGINT, SIGTERM or SIGQUIT arrives once the handlers are registered
Signal ==
  /\ Running
  /\ listeners
  /\ Incidents < MaxIncidents
  /\ signals' = signals + 1
  /\ StartShutdown(1)
  /\ UNCHANGED <<confVars, pureVars, topology, orphanStreams, healthIntervals, reconnectTimers,
                 attemptFailures, calls, listeners, initPc, reconnectAttempts, connectDepth,
                 auditLogModel, exitCode, pending, sink, feedErrors, healthRecoveries, healthPasses, events,
                 sinkFailures, stable>>

\* gracefulShutdown: this.changeStream.close() settles; on success
\* mongoose.connection.close() is called, on failure process.exit(1)
ShutdownStreamCloseSettles ==
  \E i \in BagToSet(shutdowns), ok \in BOOLEAN :
    /\ Running
    /\ i.pc = "closeStream"
    /\ IF ok
         THEN /\ shutdowns' = (shutdowns (-) SetToBag({i}))
                                (+) SetToBag({Shutdown("closeConnection", i.hadStream, TRUE)})
              /\ readyState' = 3
              /\ UNCHANGED exitCode
         ELSE /\ MayFail
              /\ exitCode' = 1
              /\ UNCHANGED <<shutdowns, readyState>>
    /\ UNCHANGED <<confVars, pureVars, topology, stepVars, reconnectAttempts, connectDepth, auditLogModel,
                   pending, sink, feedErrors, healthRecoveries, healthPasses, signals, events, sinkFailures, stable>>

\* gracefulShutdown: mongoose.connection.close() settles; process.exit(0) or (1)
ShutdownConnectionCloseSettles ==
  \E i \in BagToSet(shutdowns), ok \in BOOLEAN :
    /\ Running
    /\ i.pc = "closeConnection"
    /\ IF ok
         THEN readyState' = 0 /\ exitCode' = 0
         ELSE MayFail /\ exitCode' = 1 /\ UNCHANGED readyState
    /\ shutdowns' = shutdowns (-) SetToBag({i})
    /\ UNCHANGED <<confVars, pureVars, topology, stepVars, reconnectAttempts, connectDepth, auditLogModel,
                   pending, sink, feedErrors, healthRecoveries, healthPasses, signals, events, sinkFailures, stable>>

\* the connection drops
ConnectionLost ==
  /\ Running
  /\ MayFail
  /\ readyState = 1
  /\ readyState' = 0
  /\ UNCHANGED <<confVars, pureVars, topology, stepVars, reconnectAttempts, connectDepth, auditLogModel,
                 shutdowns, exitCode, pending, sink, feedErrors, healthRecoveries, healthPasses, signals, events,
                 sinkFailures, stable>>

\* the driver re-establishes a dropped connection
ConnectionRestored ==
  /\ Running
  /\ readyState = 0
  /\ initPc \in {"subscribing", "done"}
  /\ readyState' = 1
  /\ UNCHANGED <<confVars, pureVars, topology, stepVars, reconnectAttempts, connectDepth, auditLogModel,
                 shutdowns, exitCode, pending, sink, feedErrors, healthRecoveries, healthPasses, signals, events,
                 sinkFailures>>
  /\ UNCHANGED stable

\* from now on the collaborators' operations succeed
Stabilize ==
  /\ Running
  /\ ~stable
  /\ readyState = 1
  /\ stable' = TRUE
  /\ UNCHANGED <<confVars, pureVars, topology, stepVars, reconnectAttempts, connectDepth, readyState,
                 auditLogModel, shutdowns, exitCode, pending, sink, feedErrors, healthRecoveries, healthPasses,
                 signals, events, sinkFailures>>

-----------------------------------------------------------------------------
(* Specifications                                                          *)

\* the manager as constructed: lines 23-26
Constructed ==
  /\ initPc = "constructed"
  /\ reconnectAttempts = 0
  /\ connectDepth = 0
  /\ readyState = 0
  /\ auditLogModel = FALSE
  /\ changeStream = "null"
  /\ orphanStreams = 0
  /\ calls = EmptyBag
  /\ reconnectTimers = 0
  /\ healthIntervals = 0
  /\ listeners = FALSE
  /\ shutdowns = EmptyBag
  /\ exitCode = -1
  /\ pending = EmptyBag
  /\ sink = <<>>
  /\ attemptFailures = 0
  /\ feedErrors = 0
  /\ healthRecoveries = 0
  /\ healthPasses = 0
  /\ signals = 0
  /\ events = 0
  /\ sinkFailures = 0
  /\ stable = FALSE

PureIdle ==
  /\ pureOp = "none"
  /\ pureIn = Undefined
  /\ pureColl = ""
  /\ pureOut = Undefined
  /\ pureChange = NoChange
  /\ pureResult = NoResult

\* the manager of the test file, with maxReconnectAttempts from 1 up
Init ==
  /\ trackingConfig = [c \in {"users"} |-> {"name", "email"}]
  /\ sensitiveFields = {"password"}
  /\ maxReconnectAttempts \in 1..MaxAttemptsBound
  /\ storeCollections = {Collection("users", "collection")}
  /\ topology = "standalone"
  /\ PureIdle
  /\ Constructed

Next ==
  \/ Initialize
  \/ ConnectSucceeds
  \/ ConnectFails
  \/ ConnectRetry
  \/ ServerStatusSettles
  \/ ReplSetInitiateSettles
  \/ SettleDelayElapses
  \/ ListCollectionsSettles
  \/ CollModCommandsSettle
  \/ CollModSettles
  \/ CloseStreamSettles
  \/ ReconnectTimerFires
  \/ HealthCheckRecovers
  \/ HealthCheckPasses
  \/ FeedError
  \/ EmitEvent
  \/ CreateSettles
  \/ Signal
  \/ ShutdownStreamCloseSettles
  \/ ShutdownConnectionCloseSettles
  \/ ConnectionLost
  \/ ConnectionRestored
  \/ Stabilize

Spec == Init /\ [][Next]_vars

InitPure ==
  /\ trackingConfig \in TrackingConfigs
  /\ sensitiveFields \in SensitiveFieldSets
  /\ maxReconnectAttempts = DefaultMaxReconnectAttempts
  /\ storeCollections = {Collection("users", "collection")}
  /\ topology = "standalone"
  /\ PureIdle
  /\ Constructed

NextPure ==
  \/ (ApplyFilter /\ UNCHANGED <<confVars, topology, supVars>>)
  \/ (ApplySanitize /\ UNCHANGED <<confVars, topology, supVars>>)
  \/ (ApplyProcessChange /\ UNCHANGED <<confVars, topology, supVars>>)

SpecPure == InitPure /\ [][NextPure]_vars

\* what the store may be when the manager starts
StoreTopologies == {"standalone", "unreported", "repl"}

\* the manager of the test file in front of any store
InitAttempt ==
  /\ trackingConfig = [c \in {"users"} |-> {"name", "email"}]
  /\ sensitiveFields = {"password"}
  /\ maxReconnectAttempts = 1
  /\ storeCollections \in Listings
  /\ topology \in StoreTopologies
  /\ PureIdle
  /\ Constructed

\* the subscription attempts alone: no change events, no signals
NextAttempt ==
  \/ Initialize
  \/ ConnectSucceeds
  \/ ServerStatusSettles
  \/ ReplSetInitiateSettles
  \/ SettleDelayElapses
  \/ ListCollectionsSettles
  \/ CollModCommandsSettle
  \/ CollModSettles
  \/ CloseStreamSettles
  \/ ReconnectTimerFires
  \/ HealthCheckRecovers
  \/ FeedError
  \/ ConnectionLost
  \/ ConnectionRestored
  \/ Stabilize

SpecAttempt == InitAttempt /\ [][NextAttempt]_vars

\* the scheduling of the event loop: a timer that is due fires, a settled
\* promise resumes its awaiter, and a dropped connection is re-established
Fairness ==
  /\ WF_vars(Initialize)
  /\ WF_vars(ConnectSucceeds \/ ConnectFails)
  /\ WF_vars(ConnectRetry)
  /\ WF_vars(ServerStatusSettles)
  /\ WF_vars(ReplSetInitiateSettles)
  /\ WF_vars(SettleDelayElapses)
  /\ WF_vars(ListCollectionsSettles)
  /\ WF_vars(CollModCommandsSettle)
  /\ WF_vars(CollModSettles)
  /\ WF_vars(CloseStreamSettles)
  /\ WF_vars(ReconnectTimerFires)
  /\ WF_vars(CreateSettles)
  /\ WF_vars(ShutdownStreamCloseSettles)
  /\ WF_vars(ShutdownConnectionCloseSettles)

\* the supervisor under that scheduling, with maxReconnectAttempts at its largest
InitFair == Init /\ maxReconnectAttempts = MaxAttemptsBound

FairSpec == InitFair /\ [][Next]_vars /\ Fairness

\* the supervisor is in Subscribed: this.changeStream is an open handle with its callbacks
Subscribed == changeStream = "open"

ShutdownRequested == signals > 0 \/ shutdowns # EmptyBag \/ exitCode # -1

-----------------------------------------------------------------------------
(* Claims                                                                  *)

\* C1: connectDB makes at most maxReconnectAttempts connection attempts: the
\* k-th attempt is made with the retry counter at k-1, a failed attempt
\* increments the counter and is retried only while the counter is below the
\* maximum; when the maxReconnectAttempts-th attempt fails initialize() raises
\* (main exits with 1) and startChangeStream has never been invoked: no call,
\* no timer, no handle, no interval.  A successful attempt leaves the counter 0.
C1_ConnectAttemptsBounded ==
  /\ connectDepth <= maxReconnectAttempts
  /\ initPc = "connecting" => connectDepth >= 1 /\ reconnectAttempts = connectDepth - 1
  /\ initPc = "retryDelay" =>
       reconnectAttempts = connectDepth /\ reconnectAttempts < maxReconnectAttempts
  /\ initPc = "failed" =>
       /\ connectDepth = maxReconnectAttempts
       /\ reconnectAttempts = maxReconnectAttempts
       /\ exitCode = 1
       /\ calls = EmptyBag /\ reconnectTimers = 0 /\ attemptFailures = 0
       /\ changeStream = "null" /\ orphanStreams = 0 /\ healthIntervals = 0
  /\ initPc \in {"subscribing", "done"} => reconnectAttempts = 0 /\ connectDepth = 0

\* C1 witness: every attempt failed, after at least one retry
C1_Witness == initPc = "failed" /\ connectDepth = 2 /\ maxReconnectAttempts = 2

\* C2: once connected, a failed subscription attempt or a feed error never
\* raises to the caller of initialize() and never exits the process: the step
\* leaves the exit status and the retry counter alone, does not fail
\* initialize(), and schedules exactly one more attempt (a retry timer); the
\* retry counter and maxReconnectAttempts play no part in it.
C2_SubscriptionFailuresAbsorbed ==
  [][ (attemptFailures' > attemptFailures \/ feedErrors' > feedErrors) =>
        /\ exitCode' = exitCode
        /\ exitCode' = -1
        /\ initPc' # "failed"
        /\ shutdowns' = shutdowns
        /\ reconnectAttempts' = reconnectAttempts
        /\ reconnectTimers' = reconnectTimers + 1 ]_vars

\* C2 witness: more subscription attempts have failed than maxReconnectAttempts
\* allows connection attempts, and another attempt is scheduled
C2_Witness ==
  /\ attemptFailures > maxReconnectAttempts
  /\ reconnectTimers > 0
  /\ exitCode = -1
  /\ initPc = "done"

InSink(e) == \E i \in 1..Len(sink) : sink[i] = e

\* C3: under fair scheduling of timers and settled promises, once a feed
\* error has occurred (after any number of earlier ones) and the collaborators
\* no longer fail, the supervisor comes to hold an open handle with its
\* callbacks again and keeps one, unless a shutdown is requested; and every
\* audit record an emitted event is being processed into is then persisted,
\* unless the process exits first.
C3_ResubscribesAfterFeedErrors ==
  /\ (stable /\ feedErrors > 0) ~> [](Subscribed \/ ShutdownRequested)
  /\ \A e \in 1..MaxIncidents :
       (stable /\ BagIn(e, pending)) ~> (InSink(e) \/ exitCode # -1)

\* C3 witness: two feed errors, the collaborators have stopped failing, the
\* supervisor is subscribed again and the record of an event has been persisted
C3_Witness ==
  /\ stable
  /\ feedErrors = 2
  /\ Subscribed
  /\ ~ShutdownRequested
  /\ reconnectTimers = 0 /\ calls = EmptyBag
  /\ sink # <<>>

\* the collection name of a change event that has a namespace
CollOf(change) ==
  IF "coll" \in DOMAIN change.ns.fields THEN change.ns.fields["coll"].s ELSE "undefined"

\* C4: for every raw change event and every TrackingConfig processChange calls
\* the sink's create exactly once when the operation kind is insert, update or
\* delete and the collection is not 'audit_logs', and not at all otherwise.
C4_CreateOncePerAuditedEvent ==
  pureOp = "processChange" =>
    Len(pureResult.creates) =
      IF /\ pureChange.operationType \in {"insert", "update", "delete"}
         /\ pureChange.ns.kind = "object"
         /\ CollOf(pureChange) # "audit_logs"
        THEN 1 ELSE 0

\* C4 witness: a delete in a collection the configuration does not track is
\* still handed to the sink, once
C4_Witness ==
  /\ pureOp = "processChange"
  /\ pureChange.operationType = "delete"
  /\ pureChange.ns.kind = "object"
  /\ CollOf(pureChange) = "orders"
  /\ trackingConfig = [c \in {"users"} |-> {"name", "email"}]
  /\ Len(pureResult.creates) = 1

\* C4 witness of the rejections: a write to 'audit_logs' produced no record
C4_WitnessRejected ==
  /\ pureOp = "processChange"
  /\ pureChange.operationType = "insert"
  /\ pureChange.ns.kind = "object"
  /\ CollOf(pureChange) = "audit_logs"
  /\ pureResult.creates = <<>>

\* the entries of d the membership rule of the data model retains for collection c
RetainedByRule(d, c) ==
  IF d.kind # "object" THEN Obj(NoFields)
  ELSE Obj([f \in {g \in DOMAIN d.fields :
                     \/ DOMAIN trackingConfig = {}
                     \/ /\ c \in DOMAIN trackingConfig
                        /\ (trackingConfig[c] = {} \/ g \in trackingConfig[c])}
             |-> d.fields[f]])

\* C5: the audit log handed to the sink has, for an insert, newValue set and
\* oldValue absent; for a delete, oldValue set and newValue absent; for an
\* update both set and updateDescription present; a value that is set is the
\* post-image (newValue) or pre-image (oldValue) filtered by the tracking
\* rule, and documentKey is the event's document key.
C5_ValuesByOperationKind ==
  (pureOp = "processChange" /\ pureResult.creates # <<>>) =>
    LET log == pureResult.creates[1]
        c == CollOf(pureChange)
        kind == pureChange.operationType
    IN  /\ log.operationType = kind
        /\ log.collectionName = c
        /\ log.documentKey = pureChange.documentKey
        /\ kind = "insert" =>
             /\ log.newValue = RetainedByRule(pureChange.fullDocument, c)
             /\ log.oldValue = Undefined
        /\ kind = "delete" =>
             /\ log.oldValue = RetainedByRule(pureChange.fullDocumentBeforeChange, c)
             /\ log.newValue = Undefined
        /\ kind = "update" =>
             /\ log.oldValue = RetainedByRule(pureChange.fullDocumentBeforeChange, c)
             /\ log.newValue = RetainedByRule(pureChange.fullDocument, c)
             /\ log.updateDescription = pureChange.updateDescription
             /\ log.updateDescription.kind = "object"

\* C5 witness: an update with both images under a configuration that filters them
C5_Witness ==
  /\ pureOp = "processChange"
  /\ pureChange.operationType = "update"
  /\ pureChange.fullDocument = AnnDoc
  /\ pureChange.fullDocumentBeforeChange.kind = "object"
  /\ pureChange.fullDocumentBeforeChange # AnnDoc
  /\ CollOf(pureChange) = "users"
  /\ trackingConfig = [c \in {"users"} |-> {"name", "email"}]
  /\ pureResult.creates # <<>>
  /\ pureResult.creates[1].newValue = Obj([k \in {"name", "email"} |-> Str("v_" \o k)])
  /\ pureResult.creates[1].oldValue = Obj([k \in {"name"} |-> Str("v_" \o k)])

\* C7: filterTrackedFields(d, c) returns exactly the top-level entries of d
\* whose field f satisfies: T is empty, or c is in T and (T[c] is empty or f is
\* in T[c]), with their values unchanged, and an empty structure for a null or
\* absent d; with T = {users: [name, email]} the document {name, email,
\* password, age} of users yields {name, email}.
C7_FilterFollowsTrackingRule ==
  pureOp = "filterTrackedFields" =>
    /\ pureOut = RetainedByRule(pureIn, pureColl)
    /\ pureOut.kind = "object"
    /\ (trackingConfig = [c \in {"users"} |-> {"name", "email"}]
          /\ pureColl = "users" /\ pureIn = AnnDoc) =>
         pureOut = Obj([k \in {"name", "email"} |-> Str("v_" \o k)])

\* C7 witness: the scenario of the claim
C7_Witness ==
  /\ pureOp = "filterTrackedFields"
  /\ trackingConfig = [c \in {"users"} |-> {"name", "email"}]
  /\ pureColl = "users"
  /\ pureIn = AnnDoc
  /\ pureOut = Obj([k \in {"name", "email"} |-> Str("v_" \o k)])

\* C7 witness of the other cases: a collection absent from a non-empty
\* configuration, and a null document
C7_WitnessAbsent ==
  /\ pureOp = "filterTrackedFields"
  /\ trackingConfig = [c \in {"users"} |-> {"name", "email"}]
  /\ pureColl = "orders"
  /\ pureIn = AnnDoc
  /\ pureOut = Obj(NoFields)

\* the copy of d the claim describes: at every nesting level the value under
\* a sensitive key is replaced by the digest of its string form, every other
\* leaf (string, date, identifier, null) is kept and the containers keep their shape
RECURSIVE RedactedCopy(_)
RedactedCopy(d) ==
  IF d.kind \notin {"object", "array"} THEN d
  ELSE [d EXCEPT !.fields =
          [k \in DOMAIN d.fields |->
             IF IsSensitiveKey(k) THEN Sha256Hex(StringOf(d.fields[k]))
             ELSE RedactedCopy(d.fields[k])]]

\* C8: sanitizeAndHashSensitiveData(d) is a copy of d in which, at every
\* nesting level, the value of each key whose lowercased name contains a
\* configured matcher is replaced by the digest of its stringified value and
\* every other leaf is unchanged.
C8_SanitizeKeepsOtherLeaves ==
  pureOp = "sanitizeAndHashSensitiveData" => pureOut = RedactedCopy(pureIn)

\* C6: when the sink's create fails for an event, processChange makes no
\* further create attempt for it (the in-flight create is gone and none is
\* added), raises nothing, and leaves the supervisor as it was: the handle
\* and its callbacks, the timers, the counters and the exit status.  Events
\* delivered afterwards are still processed (the witness).
C6_SinkFailureDropsRecord ==
  [][ sinkFailures' > sinkFailures =>
        /\ BagCardinality(pending') = BagCardinality(pending) - 1
        /\ sink' = sink
        /\ shutdowns' = shutdowns
        /\ exitCode' = exitCode
        /\ UNCHANGED <<changeStream, orphanStreams, reconnectTimers, healthIntervals, calls,
                       reconnectAttempts, attemptFailures, feedErrors, listeners>> ]_vars

\* C6 witness: the record of the first event was dropped by a failing sink,
\* the second event was processed and persisted by the same handle
C6_Witness ==
  /\ sinkFailures = 1
  /\ events = 2
  /\ sink = <<2>>
  /\ pending = EmptyBag
  /\ changeStream = "open"
  /\ orphanStreams = 0
  /\ exitCode = -1

\* the invocations of gracefulShutdown that a step starts
Started(before, after) == BagCardinality(after) > BagCardinality(before)

\* C9: gracefulShutdown closes the handle this.changeStream refers to (if
\* any) first; an invocation awaits the connection close only after its feed
\* close has completed (or when there was no handle); the process exits with
\* 0 only when a connection close completes, and with 1 after initialize()
\* failed or when a close of a teardown in progress fails.
C9_TeardownInOrder ==
  /\ [](\A i \in BagToSet(shutdowns) :
          i.pc = "closeConnection" => (i.hadStream => i.streamClosed))
  /\ [][ /\ Started(shutdowns, shutdowns') =>
              IF changeStream # "null"
                THEN /\ changeStream' = "closed"
                     /\ readyState' = readyState
                     /\ \A i \in BagToSet(shutdowns') :
                          CopiesIn(i, shutdowns') > CopiesIn(i, shutdowns) => i.pc = "closeStream"
                ELSE readyState' = 3
         /\ (exitCode = -1 /\ exitCode' = 0) =>
              /\ \E i \in BagToSet(shutdowns) :
                   /\ i.pc = "closeConnection"
                   /\ CopiesIn(i, shutdowns') < CopiesIn(i, shutdowns)
              /\ readyState' = 0
         /\ (exitCode = -1 /\ exitCode' = 1) =>
              \/ initPc' = "failed"
              \/ shutdowns # EmptyBag ]_vars

\* C9 witness: a signal arrived while a handle was held, the handle was
\* closed, then the connection, and the process exited with 0
C9_Witness ==
  /\ signals = 1
  /\ exitCode = 0
  /\ changeStream = "closed"
  /\ readyState = 0

\* C9 witness of a failing teardown
C9_WitnessFailed ==
  /\ signals = 1
  /\ exitCode = 1
  /\ \E i \in BagToSet(shutdowns) : i.pc = "closeStream"

\* the audit records event e has given rise to, in flight or persisted
RecordsOf(e) == CopiesIn(e, pending) + Cardinality({i \in 1..Len(sink) : sink[i] = e})

\* C10: at most one change-feed handle is open with the change callback
\* registered, whatever attempts overlap, so no event is handed to
\* processChange by two handles and none yields two audit records.
C10_AtMostOneOpenHandle ==
  /\ Handlers <= 1
  /\ \A e \in 1..MaxIncidents : RecordsOf(e) <= 1

\* C11: a health-check tick that finds the connection not ready does what a
\* feed error does: it closes the handle this.changeStream refers to and sets
\* a retry timer, so that the new attempt starts after reconnectDelay and not
\* within the tick; a tick that finds the connection ready changes nothing
\* of the supervisor (handle, timers, attempts, counters).
C11_HealthTickRecoversAsFeedError ==
  [][ /\ healthRecoveries' > healthRecoveries =>
           /\ changeStream' = IF changeStream = "null" THEN "null" ELSE "closed"
           /\ reconnectTimers' = reconnectTimers + 1
           /\ calls' = calls
      /\ healthPasses' > healthPasses =>
           UNCHANGED <<changeStream, orphanStreams, reconnectTimers, healthIntervals, calls,
                       reconnectAttempts, attemptFailures, feedErrors, readyState, shutdowns,
                       exitCode, pending, sink>> ]_vars

\* C12: a feed error closes the handle this.changeStream refers to and sets
\* the reconnectDelay timer; when the delay has elapsed the supervisor is in
\* Connecting again: the connection-opening step (mongoose.connect) is made
\* anew, and only after it are the topology verified, the feed metadata
\* enabled and the feed subscribed to.
C12_RecoveryReentersConnecting ==
  [][ /\ feedErrors' > feedErrors =>
           /\ changeStream' = IF changeStream = "null" THEN "null" ELSE "closed"
           /\ reconnectTimers' = reconnectTimers + 1
           /\ calls' = calls
      /\ reconnectTimers' < reconnectTimers =>
           /\ connectDepth' = connectDepth + 1
           /\ calls' = calls ]_vars

\* the startChangeStream invocations of the bag b that are suspended at pc
CallsAt(b, pc) == BagCardinality([c \in {x \in BagToSet(b) : x.pc = pc} |-> b[c]])

\* C13: the collMod command is issued for every collection of the listing;
\* the commands settling, whichever of them fail, raise nothing and schedule
\* no retry; and whatever subset was skipped, the same attempt goes on to
\* lines 276-290: it closes the handle it finds or opens the feed (once the
\* collaborators no longer fail, nothing else can end it).
C13_EnableFailuresSkipped ==
  /\ [](\A c \in BagToSet(calls) :
          /\ c.pc \in {"collMod", "allSettled"} =>
               c.issued = {x.name : x \in storeCollections}
          /\ c.skipped \subseteq c.issued)
  /\ [][ /\ CallsAt(calls', "allSettled") > CallsAt(calls, "allSettled") =>
              /\ CallsAt(calls', "collMod") = CallsAt(calls, "collMod") - 1
              /\ UNCHANGED <<attemptFailures, reconnectTimers, changeStream, orphanStreams,
                             exitCode, initPc>>
         /\ CallsAt(calls', "allSettled") < CallsAt(calls, "allSettled") =>
              \/ /\ CallsAt(calls', "closeStream") = CallsAt(calls, "closeStream") + 1
                 /\ UNCHANGED <<attemptFailures, reconnectTimers>>
              \/ /\ Handlers' = Handlers + 1
                 /\ changeStream' = "open"
                 /\ UNCHANGED <<attemptFailures, reconnectTimers>>
              \/ /\ ~stable
                 /\ attemptFailures' = attemptFailures + 1 ]_vars

\* C13 witness: of the two commands issued one failed, the step completed
\* and the attempt is about to go on
C13_Witness ==
  \E c \in BagToSet(calls) :
    /\ c.pc = "allSettled"
    /\ c.issued = {"users", "active_users"}
    /\ c.skipped = {"active_users"}
    /\ stable
    /\ attemptFailures = 0

\* C13 witness of every command failing
C13_WitnessAll ==
  \E c \in BagToSet(calls) :
    /\ c.pc = "allSettled"
    /\ c.issued = {"users", "active_users"}
    /\ c.skipped = c.issued

\* C16: replSetInitiate is issued only on a serverStatus without a repl
\* section; when it settles, a successful initiation takes the attempt to
\* the settle delay, AlreadyInitialized takes it on to enabling the feed
\* metadata, and any other failure (possible only while the collaborators
\* fail) ends the attempt with one retry timer and no handle opened; feed
\* metadata is enabled only after a repl report, the settle delay or
\* AlreadyInitialized.
C16_TopologyVerified ==
  [][ /\ CallsAt(calls', "replSetInitiate") > CallsAt(calls, "replSetInitiate") =>
           /\ topology # "repl"
           /\ CallsAt(calls', "serverStatus") = CallsAt(calls, "serverStatus") - 1
      /\ CallsAt(calls', "replSetInitiate") < CallsAt(calls, "replSetInitiate") =>
           \/ /\ topology = "standalone" /\ topology' = "repl"
              /\ CallsAt(calls', "settleDelay") = CallsAt(calls, "settleDelay") + 1
              /\ UNCHANGED <<attemptFailures, reconnectTimers>>
           \/ /\ topology # "standalone" /\ topology' = topology
              /\ CallsAt(calls', "listCollections") = CallsAt(calls, "listCollections") + 1
              /\ UNCHANGED <<attemptFailures, reconnectTimers>>
           \/ /\ ~stable
              /\ topology' = topology
              /\ BagCardinality(calls') = BagCardinality(calls) - 1
              /\ attemptFailures' = attemptFailures + 1
              /\ reconnectTimers' = reconnectTimers + 1
              /\ UNCHANGED <<changeStream, orphanStreams, healthIntervals>>
      /\ CallsAt(calls', "settleDelay") < CallsAt(calls, "settleDelay") =>
           /\ CallsAt(calls', "listCollections") = CallsAt(calls, "listCollections") + 1
           /\ UNCHANGED <<attemptFailures, reconnectTimers>>
      /\ CallsAt(calls', "listCollections") > CallsAt(calls, "listCollections") =>
           \/ /\ CallsAt(calls', "serverStatus") < CallsAt(calls, "serverStatus")
              /\ topology = "repl"
           \/ CallsAt(calls', "settleDelay") < CallsAt(calls, "settleDelay")
           \/ /\ CallsAt(calls', "replSetInitiate") < CallsAt(calls, "replSetInitiate")
              /\ topology # "standalone" ]_vars

\* C16 witness: in front of a store that is initiated but reports no repl
\* section, the first attempt subscribed (through AlreadyInitialized)
C16_Witness ==
  /\ topology = "unreported"
  /\ changeStream = "open"
  /\ attemptFailures = 0 /\ feedErrors = 0 /\ healthRecoveries = 0

\* C16 witness of the other outcomes: a store initiated by the manager after
\* a failed initiation
C16_WitnessInitiated ==
  /\ topology = "repl"
  /\ attemptFailures = 1
  /\ CallsAt(calls, "settleDelay") = 1

\* C14: processChange invocations overlap: while sink writes are in flight,
\* for however long, an open handle still delivers the next event to
\* processChange, and each write in flight can complete and be persisted
\* whatever the others do; so records can be persisted in another order than
\* the events were emitted (the witness).
C14_WritesInFlightTogether ==
  /\ (Running /\ Handlers > 0 /\ Incidents < MaxIncidents) => ENABLED EmitEvent
  /\ Running =>
       \A e \in BagToSet(pending) :
         ENABLED (CreateSettles /\ sink' = Append(sink, e) /\ pending' = pending (-) SetToBag({e}))

\* C14 witness: the write of the first event is still in flight; the second
\* and third events were processed after it and persisted, the third first
C14_Witness ==
  /\ pending = SetToBag({1})
  /\ sink = <<3, 2>>
  /\ orphanStreams = 0

\* C15: once gracefulShutdown has been invoked no new handle is opened and
\* no callbacks are registered, whatever timer or health-check tick fires
\* during the teardown; and when the process has exited after a teardown no
\* handle the supervisor opened is still open.
C15_ShuttingDownTerminal ==
  /\ [][ shutdowns # EmptyBag => Handlers' <= Handlers ]_vars
  /\ []((exitCode = 0 /\ signals > 0) => Handlers = 0)

\* C17: at most one health-check interval is active, however many times the
\* supervisor has re-subscribed, so one interval period with the connection
\* lost starts at most one recovery attempt.
C17_OneHealthInterval == healthIntervals <= 1

\* C18: when initialize() returns without raising, this.changeStream is an
\* open handle with its callbacks, and no subscription attempt is merely
\* scheduled for later.
C18_InitializedMeansSubscribed ==
  [][ (initPc # "done" /\ initPc' = "done") =>
        /\ changeStream' = "open"
        /\ reconnectTimers' = 0 ]_vars

\* C19: the checksum of the record as stored equals the checksum computed
\* over the stored content: the stored oldValue and newValue (sensitive
\* values hashed) with timestamp, operationType, collectionName, documentKey
\* and updateDescription.
C19_StoredChecksumVerifies ==
  (pureOp = "processChange" /\ pureResult.creates # <<>>) =>
    LET stored == StoredRecord(pureResult.creates[1])
    IN  stored.checksum = createChecksum(AuditLogObject(stored))

\* C20: whatever event an open handle delivers, with or without a namespace
\* or a collection, processChange raises nothing: delivering an event starts
\* no gracefulShutdown and does not end the process.
C20_NoEventRaises ==
  [][ events' > events =>
        /\ shutdowns' = shutdowns
        /\ exitCode' = exitCode
        /\ changeStream' = changeStream ]_vars

====
